---- MODULE Spec2Model ----
(***************************************************************************)
(* Model of the yolo-video-proc WasmEdge plugin (host_library/src/lib.rs): *)
(* the mutex-guarded FramesMap, the guest linear memory the host functions *)
(* read and write through raw pointers, and the four host functions        *)
(* load_video_to_host_memory, get_frame, write_frame and                    *)
(* assemble_output_frames_to_video.                                         *)
(*                                                                         *)
(* Option<T> is modelled as a sequence of length 0 (None) or 1 (Some).      *)
(* Under Spec a host function call is one atomic step: every handler takes  *)
(* the mutex in its first statement and holds the guard until it returns.   *)
(* Under ConcSpec several host threads run the handlers statement group by  *)
(* statement group, and the mutex is what orders them.                      *)
(***************************************************************************)
EXTENDS Integers, Sequences, FiniteSets, TLC

\* ------------------------------------------------------------------ bounds
\* Largest number of frames a decoded video has in the model.
MaxFrames == 3
\* Size in bytes of the guest's linear memory (a real one is pages of 64 KiB).
MemSize == 108

\* ------------------------------------------------------- program constants
\* RGB24: write_frame sizes the buffer as width * height * 3.
BytesPerPixel == 3
\* frame::Video::new allocates the picture with av_frame_get_buffer(frame, 32):
\* the width is padded until a line is a multiple of 32 bytes, which for three
\* bytes per pixel is a multiple of 32 pixels.
LineAlign == 32

\* --------------------------------------------------------------- Option<T>
None == <<>>
Some(x) == <<x>>
IsSome(o) == Len(o) = 1
Unwrap(o) == o[1]

\* ------------------------------------------------------ integer conversions
\* `x as u32` / `x as usize` of a guest i32.  A non-negative value is kept;
\* a negative one wraps to x + 2^32 (or x + 2^64), which is at least 2^31 and
\* so above every i32, every length and every address.  TLC's integers end at
\* 2^31 - 1, so every wrapped value is represented by that largest integer:
\* it compares with the values the handlers compare it with (frame counts,
\* buffer lengths, the memory size) as the wrapped value does.
ToUnsigned(x) == IF x >= 0 THEN x ELSE 2147483647

\* Byte k (little endian) of a u32.
LEByte(v, k) == (v \div (256 ^ k)) % 256

\* ------------------------------------------------------------ guest memory
Addrs == 0 .. (MemSize - 1)

\* Memory::data_pointer_mut(offset, len): Ok iff [offset, offset+len) lies in
\* the memory instance.
InBounds(offset, len) == offset <= MemSize /\ len <= MemSize - offset

\* The bytes of the slice [ptr, ptr+len) of guest memory.
Slice(mem, ptr, len) == [k \in 1 .. len |-> mem[ptr + k - 1]]

\* CopyToGuest with the bug of starting one byte too far.
CopyToGuest_OffByOne(mem, ptr, src) ==
    [a \in Addrs |-> IF a > ptr /\ a <= ptr + Len(src) THEN src[a - ptr] ELSE mem[a]]

\* slice.copy_from_slice(src) through a pointer to guest address ptr.
CopyToGuest(mem, ptr, src) ==
    [a \in Addrs |-> IF a >= ptr /\ a < ptr + Len(src) THEN src[a - ptr + 1] ELSE mem[a]]

\* WriteU32 with the bug of storing the most significant byte first.
WriteU32_BigEndian(mem, ptr, v) ==
    [a \in Addrs |-> IF a >= ptr /\ a < ptr + 4 THEN LEByte(v, 3 - (a - ptr)) ELSE mem[a]]

\* `*(p as *mut u32) = v`: four bytes stored at guest address ptr.  Bytes that
\* fall beyond the end of the memory instance land outside the guest memory.
WriteU32(mem, ptr, v) ==
    [a \in Addrs |-> IF a >= ptr /\ a < ptr + 4 THEN LEByte(v, a - ptr) ELSE mem[a]]

\* ------------------------------------------------------------------- state
VARIABLES
    frames,      \* FramesMap.frames: Vec<FrameMap>
    video_info,  \* FramesMap.video_info: Option<VideoInfo>
    memory,      \* the guest's linear memory, byte by byte
    host,        \* "running", "poisoned" (the mutex is poisoned) or "aborted"
    last,        \* what the most recent step did and returned to the guest
    written,     \* history: indexes write_frame answered 0 for since the last load
    scenario,    \* history: progress through the end-to-end scenario (0 .. 6)
    lock,        \* the Mutex: 0 when free, else the thread holding the MutexGuard
    threads,     \* per host thread: where it is in its handler, and its locals
    serial       \* history: the store and memory had the calls run one at a
                 \* time, whole, in the order they took the lock

vars == <<frames, video_info, memory, host, last, written, scenario, lock, threads, serial>>

\* frame::Video::stride(0) of an RGB24 picture: the bytes of a line of the
\* width rounded up to a multiple of LineAlign pixels.
LineSize(width) == BytesPerPixel * (((width + LineAlign - 1) \div LineAlign) * LineAlign)

\* frame::Video::data(0).len(): stride(0) * height.  It is width * height * 3
\* only when the width is a multiple of LineAlign.
PlaneLen(width, height) == LineSize(width) * height

\* The u32 product width * height * 3 of line 258 does not fit in 32 bits.
BufferSizeOverflows(width, height) == width > 0 /\ height > 1431655765 \div width

\* u32 arithmetic modulo 2^32, on the halves <<high 16 bits, low 16 bits>> of
\* a u32 (TLC's integers end at 2^31 - 1): the wrapping product of two u32.
Mul32(a, b) ==
    LET al    == a % 65536
        ah    == a \div 65536
        bl    == b % 65536
        bh    == b \div 65536
        p1    == al * (bl % 256)
        p2    == al * (bl \div 256)
        low   == ((p2 % 256) * 256) + p1
        carry == (p2 \div 256) + (low \div 65536)
        cross == ((ah * bl) % 65536) + ((al * bh) % 65536)
    IN  <<(carry + cross) % 65536, low % 65536>>

\* The wrapping product of a u32 in halves and 3.
Times3(u) == <<((u[1] * 3) + ((u[2] * 3) \div 65536)) % 65536, (u[2] * 3) % 65536>>

\* `u as usize` of a u32 in halves; a value of 2^31 or more is represented,
\* like the wrapped values of ToUnsigned, by the largest integer.
HalvesToUsize(u) == IF u[1] >= 32768 THEN 2147483647 ELSE (u[1] * 65536) + u[2]

\* (width * height * 3) as usize as a build without overflow checks computes
\* it: the product wraps modulo 2^32.  Where nothing overflows it is the
\* product.
WrappedBufferSize(width, height) == HalvesToUsize(Times3(Mul32(width, height)))

\* frame::Video::new(Pixel::RGB24, width, height) filled with `data`.
VideoFrame(width, height, data) == [width |-> width, height |-> height, data |-> data]

\* ------------------------------------------------- the Decode Collaborator
\* decode_video::dump_frames(&filename): what is decoded depends on the file
\* system, so the outcome is an input of the call: an error, or one of the
\* videos below.  Video 1 is 32x1 with n frames: its lines need no padding.
\* Video 2 is 31x1 with one frame or none: its lines are padded by one pixel.
\* Every decoded FrameMap has its output_frame unset.
VideoIds == {1, 2}
VideoWidth(v) == IF v = 1 THEN LineAlign ELSE LineAlign - 1
VideoHeight(v) == 1
InputData(v, i, len) == [k \in 1 .. len |-> IF k = 1 THEN (i + v) % 2 ELSE 0]

DecodedFrame(v, i) ==
    [input_frame  |-> VideoFrame(VideoWidth(v), VideoHeight(v),
                                 InputData(v, i, PlaneLen(VideoWidth(v), VideoHeight(v)))),
     frame_type   |-> IF i = 0 THEN "I" ELSE "P",
     timestamp    |-> IF v = 1 THEN Some(10 * i) ELSE None,
     output_frame |-> None]

DecodedVideo(v, n) ==
    [ok         |-> TRUE,
     frames     |-> [k \in 1 .. n |-> DecodedFrame(v, k - 1)],
     video_info |-> [width |-> VideoWidth(v), height |-> VideoHeight(v), codec |-> v]]

DecodeError == [ok |-> FALSE, frames |-> <<>>, video_info |-> [width |-> 0, height |-> 0, codec |-> 0]]

DecodeOutcomes ==
    {DecodeError} \cup {DecodedVideo(1, n) : n \in 0 .. MaxFrames}
                  \cup {DecodedVideo(2, n) : n \in 0 .. 1}

\* ------------------------------------------------------- the call record
\* op       the host function called ("guest_store" for a store by the guest)
\* idx, ptr, len  the guest's index, buffer address and declared buffer length
\*          (get_frame, write_frame)
\* dec_error decode_video::dump_frames returned an error
\* outcome  "ok" (Ok(vec![value])), "err" (Err(HostFuncError::User(value))),
\*          "panic" (an expect/unwrap/copy_from_slice panicked at `at`),
\*          "abort" (the process died during the call)
\* store_changed, mem_changed  the call changed the FramesMap, the guest memory
\* had_outputs  some frame had an output picture when the call began
\* missing  the indexes logged by "ERROR MISSING FRAMES"
\* enc_info Some(video_info) once VideoEncoder::new was called
\* enc_frames Some(triples) once receive_and_process_decoded_frames was called
\* nbytes   bytes of the guest buffer copied into the new output picture
\* freed    the host dropped (deallocated) a String/Vec built on guest memory
\* overrun  the host stored bytes beyond the end of the guest memory
\* ub       the call built a String/Vec with from_raw_parts whose capacity is
\*          below its length, or stored a u32 through a misaligned pointer
\* enc_error the Encode Collaborator returned an error (new, or writing the frames)
\* overwrote write_frame replaced an output picture that held other bytes
\* width_ptr, height_ptr  the guest's output slots (load_video)
\* checked  the length data_pointer_mut verified for each range the call stored to
\* stored   the number of bytes the call stored at each such range
NoCall ==
    [op |-> "none", idx |-> 0, ptr |-> 0, len |-> 0, outcome |-> "ok", value |-> 0,
     at |-> "", dec_error |-> FALSE, store_changed |-> FALSE, mem_changed |-> FALSE,
     had_outputs |-> FALSE,
     missing |-> <<>>, enc_info |-> None, enc_frames |-> None, nbytes |-> 0,
     enc_error |-> FALSE, freed |-> FALSE, overrun |-> FALSE, overwrote |-> FALSE,
     width_ptr |-> 0, height_ptr |-> 0, checked |-> 0, stored |-> 0, ub |-> FALSE]

\* The value a handler leaves behind: the store, the guest memory, the record.
Result(fr, vi, mem, rec) == [frames |-> fr, video_info |-> vi, memory |-> mem, last |-> rec]

Panic(rec, where, freed) == [rec EXCEPT !.outcome = "panic", !.at = where, !.freed = freed]

\* ------------------------------------------------ load_video_to_host_memory
\* ReplaceAll with the bug of extending the stored frames instead of replacing.
ReplaceAll_Extend(fr, vi, dec) ==
    [frames |-> fr \o dec.frames, video_info |-> Some(dec.video_info)]

\* ReplaceAll with the bug of carrying the old output pictures over to the new
\* frames.
ReplaceAll_KeepOutputs(fr, vi, dec) ==
    [frames |-> [k \in 1 .. Len(dec.frames) |->
                    IF k <= Len(fr)
                    THEN [dec.frames[k] EXCEPT !.output_frame = fr[k].output_frame]
                    ELSE dec.frames[k]],
     video_info |-> Some(dec.video_info)]

\* Lines 164-166: the guard's video_info and frames are assigned the decoded
\* ones.
ReplaceAll(fr, vi, dec) == [frames |-> dec.frames, video_info |-> Some(dec.video_info)]

\* DecodeFailed with the bug of emptying the store on a failed decode.
DecodeFailed_Clears(fr, vi, mem, rec) ==
    Result(<<>>, None, mem, [rec EXCEPT !.outcome = "err", !.value = 1, !.dec_error = TRUE])

\* Lines 170-174: the decoder's error is logged and Err(User(1)) returned.
DecodeFailed(fr, vi, mem, rec) ==
    Result(fr, vi, mem, [rec EXCEPT !.outcome = "err", !.value = 1, !.dec_error = TRUE])

\* a = [filename_ptr, filename_len, filename_capacity, width_ptr, height_ptr],
\* dec = what decode_video::dump_frames returns.  The String of lines 143-149
\* is built once the three addresses resolve; the u32 stores of lines 156-161
\* go through the one-byte pointers cast to *mut u32.
load_video_to_host_memory(fr, vi, mem, a, dec) ==
    LET wp  == ToUnsigned(a.width_ptr)
        hp  == ToUnsigned(a.height_ptr)
        fp  == ToUnsigned(a.filename_ptr)
        fl  == ToUnsigned(a.filename_len)
        rec == [NoCall EXCEPT !.op = "load_video", !.width_ptr = a.width_ptr,
                              !.height_ptr = a.height_ptr,
                              !.ub = InBounds(wp, 1) /\ InBounds(hp, 1) /\ InBounds(fp, fl)
                                     /\ ToUnsigned(a.filename_capacity) < fl]
    IN  IF ~InBounds(wp, 1) THEN Result(fr, vi, mem, Panic(rec, "width_ptr", FALSE))
        ELSE IF ~InBounds(hp, 1) THEN Result(fr, vi, mem, Panic(rec, "height_ptr", FALSE))
        ELSE IF ~InBounds(fp, fl) THEN Result(fr, vi, mem, Panic(rec, "filename_ptr", FALSE))
        ELSE IF dec.ok
             THEN LET n    == Len(dec.frames)
                      mem1 == IF n > 0
                              THEN WriteU32(WriteU32(mem, wp, dec.frames[1].input_frame.width),
                                            hp, dec.frames[1].input_frame.height)
                              ELSE mem
                      over == n > 0 /\ (wp + 4 > MemSize \/ hp + 4 > MemSize)
                      skew == n > 0 /\ (wp % 4 # 0 \/ hp % 4 # 0)
                      new  == ReplaceAll(fr, vi, dec)
                  IN  Result(new.frames, new.video_info, mem1,
                             [rec EXCEPT !.value = Len(new.frames), !.overrun = over,
                                         !.ub = @ \/ skew,
                                         !.checked = IF n > 0 THEN 1 ELSE 0,
                                         !.stored = IF n > 0 THEN 4 ELSE 0])
             ELSE DecodeFailed(fr, vi, mem, rec)

\* ---------------------------------------------------------------- get_frame
\* FrameAt with the bug of clamping an index beyond the end to the last frame.
FrameAt_Clamped(fr, i) ==
    IF Len(fr) = 0 THEN None ELSE IF i < Len(fr) THEN Some(fr[i + 1]) ELSE Some(fr[Len(fr)])

\* Vec::get / Vec::get_mut with a usize index: the frame, or None.
FrameAt(fr, i) == IF i < Len(fr) THEN Some(fr[i + 1]) ELSE None

\* a = [idx, ptr, len, capacity].  The Vec of lines 210-211 is built on the
\* guest buffer with the guest's length and capacity, and is forgotten on both
\* branches; a panicking copy_from_slice unwinds through it.
get_frame(fr, vi, mem, a) ==
    LET i     == ToUnsigned(a.idx)
        p     == ToUnsigned(a.ptr)
        l     == ToUnsigned(a.len)
        rec   == [NoCall EXCEPT !.op = "get_frame", !.idx = a.idx, !.ptr = a.ptr, !.len = a.len,
                                !.ub = InBounds(p, l) /\ ToUnsigned(a.capacity) < l]
        frame == FrameAt(fr, i)
    IN  IF ~InBounds(p, l) THEN Result(fr, vi, mem, Panic(rec, "image_buf", FALSE))
        ELSE IF IsSome(frame)
             THEN LET src == Unwrap(frame).input_frame.data
                  IN  IF Len(src) # l
                      THEN Result(fr, vi, mem, Panic(rec, "copy_from_slice", a.capacity # 0))
                      ELSE Result(fr, vi, CopyToGuest(mem, p, src),
                                  [rec EXCEPT !.value = 1, !.nbytes = l,
                                              !.checked = l, !.stored = Len(src)])
             ELSE Result(fr, vi, mem, [rec EXCEPT !.value = 1])

\* -------------------------------------------------------------- write_frame
\* InstallOutput with the bug of keeping an output picture that is already set.
InstallOutput_Once(frame_map, video_frame) ==
    IF IsSome(frame_map.output_frame) THEN frame_map
    ELSE [frame_map EXCEPT !.output_frame = Some(video_frame)]

\* Line 285: frame_map.output_frame = Some(video_frame).
InstallOutput(frame_map, video_frame) ==
    [frame_map EXCEPT !.output_frame = Some(video_frame)]

\* a = [idx, ptr, len, overflow_checks]: the guest's arguments, and whether
\* the build checks integer overflow (a debug build does, a release build
\* does not).  The Vec has the guest's length and the capacity
\* width * height * 3; copy_from_slice panics unless the guest's length is
\* the length of plane 0 of the new picture.  Where width * height * 3
\* overflows a u32, a build with overflow checks panics at the multiplication,
\* before the Vec exists; a build without them builds the Vec with the
\* wrapped capacity and panics when it fills the picture, whose plane is
\* longer than any i32 length, and the unwinding drops the Vec.
write_frame(fr, vi, mem, a) ==
    LET rec == [NoCall EXCEPT !.op = "write_frame", !.idx = a.idx, !.ptr = a.ptr, !.len = a.len]
        i   == ToUnsigned(a.idx)
        p   == ToUnsigned(a.ptr)
        l   == ToUnsigned(a.len)
    IN  IF ~IsSome(vi) THEN Result(fr, vi, mem, Panic(rec, "video_info", FALSE))
        ELSE IF ~InBounds(p, l) THEN Result(fr, vi, mem, Panic(rec, "image_buf", FALSE))
        ELSE IF /\ BufferSizeOverflows(Unwrap(vi).width, Unwrap(vi).height)
                /\ a.overflow_checks
        THEN Result(fr, vi, mem, Panic(rec, "buffer_size", FALSE))
        ELSE LET w    == Unwrap(vi).width
                 h    == Unwrap(vi).height
                 cap  == WrappedBufferSize(w, h)
                 rec1 == [rec EXCEPT !.ub = cap < l]
             IN  IF BufferSizeOverflows(w, h) \/ l # PlaneLen(w, h)
                 THEN Result(fr, vi, mem, Panic(rec1, "copy_from_slice", cap # 0))
                 ELSE LET video_frame == VideoFrame(w, h, Slice(mem, p, l))
                          frame_map   == FrameAt(fr, i)
                      IN  IF IsSome(frame_map)
                          THEN Result([fr EXCEPT ![i + 1] =
                                           InstallOutput(Unwrap(frame_map), video_frame)],
                                      vi, mem,
                                      [rec1 EXCEPT !.value = 0, !.nbytes = l,
                                                   !.overwrote =
                                                       /\ IsSome(fr[i + 1].output_frame)
                                                       /\ fr[i + 1].output_frame # Some(video_frame)])
                          ELSE Result(fr, vi, mem, [rec1 EXCEPT !.value = 1, !.nbytes = l])

\* ------------------------------------------ assemble_output_frames_to_video
\* Line 334: the triple pushed for a written frame.
Triple(frame_map) ==
    <<Unwrap(frame_map.output_frame), frame_map.frame_type, frame_map.timestamp>>

\* Push with the bug of inserting at the front.
Push_Front(vec, x) == <<x>> \o vec

\* Lines 334 and 336: Vec::push.
Push(vec, x) == Append(vec, x)

\* The fold of lines 328-340 over frames k .. Len(fr): the triples of the
\* written frames and the indexes of the others.
RECURSIVE ScanFrames(_, _, _)
ScanFrames(fr, k, acc) ==
    IF k > Len(fr) THEN acc
    ELSE ScanFrames(fr, k + 1,
            IF IsSome(fr[k].output_frame)
            THEN [acc EXCEPT !.frames = Push(@, Triple(fr[k]))]
            ELSE [acc EXCEPT !.missing = Push(@, k - 1)])

\* FramesAfterScan with the bug of moving the output pictures out of the store
\* (Option::take in place of as_mut and clone).
FramesAfterScan_Take(fr) == [k \in 1 .. Len(fr) |-> [fr[k] EXCEPT !.output_frame = None]]

\* Lines 331-334: the fold borrows each output_frame (as_mut) and pushes a
\* clone of it, so the stored frames are what they were.
FramesAfterScan(fr) == fr

\* FramesMissing with the bug of tolerating one missing frame.
FramesMissing_OffByOne(missing) == Len(missing) > 1

\* Line 342: missing_frames.len() > 0.
FramesMissing(missing) == Len(missing) > 0

\* a = [filename_ptr, filename_len, filename_capacity]; new_ok and write_ok are
\* what VideoEncoder::new and receive_and_process_decoded_frames return.
\* The String of lines 314-320 is built on the guest's bytes with the guest's
\* length and capacity before anything is read from the store.  output_file
\* is forgotten on the last path only: the early returns and the unwrap's
\* panic drop it.
assemble_output_frames_to_video(fr, vi, mem, a, new_ok, write_ok) ==
    LET fp   == ToUnsigned(a.filename_ptr)
        fl   == ToUnsigned(a.filename_len)
        rec  == [NoCall EXCEPT !.op = "assemble_video",
                               !.ub = InBounds(fp, fl) /\ ToUnsigned(a.filename_capacity) < fl]
        drop == a.filename_capacity # 0
    IN  IF ~InBounds(fp, fl) THEN Result(fr, vi, mem, Panic(rec, "filename_ptr", FALSE))
        ELSE IF ~IsSome(vi) THEN Result(fr, vi, mem, Panic(rec, "video_info", drop))
        ELSE LET scan == ScanFrames(fr, 1, [frames |-> <<>>, missing |-> <<>>])
                 fr1  == FramesAfterScan(fr)
             IN  IF FramesMissing(scan.missing)
                 THEN Result(fr1, vi, mem,
                             [rec EXCEPT !.outcome = "err", !.value = 1,
                                         !.missing = scan.missing, !.freed = drop])
                 ELSE IF ~new_ok
                 THEN Result(fr1, vi, mem,
                             [rec EXCEPT !.outcome = "err", !.value = 1, !.enc_info = vi,
                                         !.enc_error = TRUE, !.freed = drop])
                 ELSE Result(fr1, vi, mem,
                             [rec EXCEPT !.value = 1, !.enc_info = vi,
                                         !.enc_frames = Some(scan.frames),
                                         !.enc_error = ~write_ok])

\* ------------------------------------------------------ the guest's inputs
\* The guest keeps two views of its frame area, at addresses 0 and BufB (the
\* second starts one pixel into the first), and the width and height words in
\* the last two aligned words of its memory.
BufB == BytesPerPixel
WidthSlot == 4 * ((MemSize - 8) \div 4)
HeightSlot == WidthSlot + 4
\* The picture size the guest works with: the plane length of video 1.
BufLen == PlaneLen(LineAlign, 1)
\* Bytes the guest stores into the first byte of its frame area.
GuestBytes == {0, 1}
\* Frame indexes the guest passes: -1, the valid ones, one too large, and the
\* least i32.
IdxArgs == (-1 .. MaxFrames) \cup {-2147483647 - 1}
\* Declared buffer lengths: the plane length of each video, and its
\* width * height * 3.
BufLens ==
    {PlaneLen(VideoWidth(v), VideoHeight(v)) : v \in VideoIds}
    \cup {VideoWidth(v) * VideoHeight(v) * BytesPerPixel : v \in VideoIds}
\* get_frame's (idx, ptr, len, capacity): every index with every length in the
\* buffer at 0, with a capacity that covers the length; a capacity of 0 with
\* an index beyond the frames and with the first index; an address where
\* nothing resolves.
GetArgs ==
    {<<i, 0, l, BufLen>> : i \in IdxArgs, l \in BufLens}
    \cup {<<-1, 0, BufLen, 0>>, <<0, 0, BufLen, 0>>, <<0, MemSize, BufLen, BufLen>>}
\* write_frame's (idx, ptr, len): every index with every length from the
\* buffer at 0; the first index from the buffer at BufB; an address where
\* nothing resolves.
WriteArgs ==
    {<<i, 0, l>> : i \in IdxArgs, l \in BufLens}
    \cup {<<0, BufB, BufLen>>, <<0, MemSize, BufLen>>}
\* load_video's (filename_ptr, filename_len, filename_capacity, width_ptr,
\* height_ptr): all resolvable; the height word in the last byte of the memory;
\* a slot, or the file name, that does not resolve; a capacity below the
\* length; a width word that is not aligned.
LoadArgs ==
    {<<0, 2, 2, WidthSlot, HeightSlot>>, <<0, 2, 2, WidthSlot, MemSize - 1>>,
     <<0, 2, 2, -1, HeightSlot>>, <<0, 2, 2, WidthSlot, MemSize>>,
     <<MemSize, 1, 1, WidthSlot, HeightSlot>>, <<0, 2, 0, WidthSlot, HeightSlot>>,
     <<0, 2, 2, WidthSlot - 1, HeightSlot>>}
\* What the decoder returns for each of them: anything for the first, one
\* frame of video 1 for the others.
DecodesFor(f) ==
    IF f = <<0, 2, 2, WidthSlot, HeightSlot>> THEN DecodeOutcomes ELSE {DecodedVideo(1, 1)}
\* assemble_video's (filename_ptr, filename_len, filename_capacity): resolvable
\* with a capacity that covers the length and with one below it, and
\* unresolvable.
FilenameArgs == {<<0, 2, 2>>, <<0, 2, 0>>, <<MemSize, 1, 1>>}

\* ----------------------------------------------------------------- history
\* The indexes for which write_frame returned 0 since the most recent
\* successful load_video.
WrittenNext(w, rec) ==
    IF rec.op = "load_video" /\ rec.outcome = "ok" THEN {}
    ELSE IF rec.op = "write_frame" /\ rec.outcome = "ok" /\ rec.value = 0
         THEN w \cup {rec.idx}
         ELSE w

\* The end-to-end scenario: a load that returns 3 (stage 1), write_frame(0)
\* and write_frame(1) returning 0 (2, 3), an assemble_video that fails with
\* frame 2 missing (4), write_frame(2) returning 0 (5), an assemble_video that
\* returns (6).  Stores by the guest do not interrupt it; any other call, and
\* any step after its end, starts it over.
ScenarioNext(s, rec) ==
    LET wrote(i) == rec.op = "write_frame" /\ rec.outcome = "ok" /\ rec.value = 0 /\ rec.idx = i
    IN  IF rec.op = "guest_store" THEN (IF s = 6 THEN 0 ELSE s)
        ELSE IF rec.op = "load_video" /\ rec.outcome = "ok" /\ rec.value = 3 THEN 1
        ELSE IF s = 1 /\ wrote(0) THEN 2
        ELSE IF s = 2 /\ wrote(1) THEN 3
        ELSE IF s = 3 /\ rec.op = "assemble_video" /\ rec.outcome = "err" /\ rec.missing = <<2>>
             THEN 4
        ELSE IF s = 4 /\ wrote(2) THEN 5
        ELSE IF s = 5 /\ rec.op = "assemble_video" /\ rec.outcome \in {"ok", "err"} THEN 6
        ELSE 0

\* ------------------------------------------------------------ host threads
\* The threads that call the host functions on the one Arc<Mutex<FramesMap>>
\* every registered function shares.
Threads == {1, 2}

\* What a call gave its caller: "ok"/"err" with the value, or "panic" at a
\* place; for assemble_video also what was logged missing and what the
\* Encode Collaborator was handed.
NoRet ==
    [outcome |-> "none", value |-> 0, at |-> "", missing |-> <<>>,
     enc_info |-> None, enc_frames |-> None]

Ret(rec) ==
    [outcome |-> rec.outcome, value |-> rec.value, at |-> rec.at, missing |-> rec.missing,
     enc_info |-> rec.enc_info, enc_frames |-> rec.enc_frames]

\* A thread's call: the host function, its index and buffer arguments,
\* whether the build checks integer overflow and,
\* for load_video, what the decoder returns.
IdleCall ==
    [op |-> "none", idx |-> 0, ptr |-> 0, len |-> 0, overflow_checks |-> TRUE,
     dec |-> DecodeError]

\* pc    "idle", "lock" (blocked in data.lock()), a place inside a handler,
\*       "unlock" (about to return and drop the guard) or "panicked"
\* info  write_frame's video_info reference, assemble_video's clone
\* pic   the frame::Video write_frame has filled from the guest buffer
\* ret   what the call is about to return
\* want  history: what the same call returns when run whole on `serial`
IdleThread ==
    [pc |-> "idle", call |-> IdleCall, info |-> None, pic |-> None,
     ret |-> NoRet, want |-> NoRet]

\* ----------------------------------------------------------------- actions
Init ==
    /\ frames = <<>>
    /\ video_info = None
    /\ memory = [a \in Addrs |-> 0]
    /\ host = "running"
    /\ last = NoCall
    /\ written = {}
    /\ scenario = 0
    /\ lock = 0
    /\ threads = [t \in Threads |-> IdleThread]
    /\ serial = [frames |-> <<>>, video_info |-> None, memory |-> [a \in Addrs |-> 0]]

\* The end of a host function call that took the mutex.  A panic unwinds
\* through the MutexGuard and poisons the mutex, or aborts the process at the
\* extern "C" boundary; deallocating guest memory, storing beyond the memory
\* instance or through a misaligned pointer, and a from_raw_parts whose
\* capacity is below its length are undefined: the call returns all the same,
\* or the process dies, and then nothing of the call reaches the guest.
Complete(r) ==
    /\ host' \in (IF r.last.outcome = "panic" THEN {"poisoned", "aborted"}
                  ELSE IF r.last.freed \/ r.last.overrun \/ r.last.ub THEN {host, "aborted"}
                  ELSE {host})
    /\ IF host' = "aborted"
       THEN /\ UNCHANGED <<frames, video_info, memory, written>>
            /\ last' = [NoCall EXCEPT !.op = r.last.op, !.outcome = "abort", !.at = r.last.at]
       ELSE /\ frames' = r.frames
            /\ video_info' = r.video_info
            /\ memory' = r.memory
            /\ last' = [r.last EXCEPT
                          !.store_changed = r.frames # frames \/ r.video_info # video_info,
                          !.mem_changed = r.memory # memory,
                          !.had_outputs = \E k \in 1 .. Len(frames) : IsSome(frames[k].output_frame)]
            /\ written' = WrittenNext(written, r.last)
    /\ scenario' = ScenarioNext(scenario, last')
    /\ UNCHANGED <<lock, threads, serial>>

\* data.lock().expect(..) on a poisoned mutex panics before anything else.
LockPanics(op) ==
    /\ host = "poisoned"
    /\ Complete(Result(frames, video_info, memory,
                       Panic([NoCall EXCEPT !.op = op], "lock", FALSE)))

LoadVideo ==
    \/ LockPanics("load_video")
    \/ /\ host = "running"
       /\ \E f \in LoadArgs : \E dec \in DecodesFor(f) :
            Complete(load_video_to_host_memory(frames, video_info, memory,
                [filename_ptr |-> f[1], filename_len |-> f[2], filename_capacity |-> f[3],
                 width_ptr |-> f[4], height_ptr |-> f[5]], dec))

GetFrame ==
    \/ LockPanics("get_frame")
    \/ /\ host = "running"
       /\ \E g \in GetArgs :
            Complete(get_frame(frames, video_info, memory,
                [idx |-> g[1], ptr |-> g[2], len |-> g[3], capacity |-> g[4]]))

WriteFrame ==
    \/ LockPanics("write_frame")
    \/ /\ host = "running"
       /\ \E w \in WriteArgs, oc \in BOOLEAN :
            Complete(write_frame(frames, video_info, memory,
                [idx |-> w[1], ptr |-> w[2], len |-> w[3], overflow_checks |-> oc]))

AssembleVideo ==
    \/ LockPanics("assemble_video")
    \/ /\ host = "running"
       /\ \E f \in FilenameArgs, new_ok \in BOOLEAN, write_ok \in BOOLEAN :
            Complete(assemble_output_frames_to_video(frames, video_info, memory,
                [filename_ptr |-> f[1], filename_len |-> f[2], filename_capacity |-> f[3]],
                new_ok, write_ok))

\* The guest stores a byte at the start of its frame area between two calls.
\* A poisoned mutex does not stop the guest; an aborted process has none.
GuestStore ==
    /\ host # "aborted"
    /\ \E b \in GuestBytes :
         /\ memory' = [memory EXCEPT ![0] = b]
         /\ last' = [NoCall EXCEPT !.op = "guest_store"]
    /\ scenario' = ScenarioNext(scenario, last')
    /\ UNCHANGED <<frames, video_info, host, written, lock, threads, serial>>

Next == LoadVideo \/ GetFrame \/ WriteFrame \/ AssembleVideo \/ GuestStore

Spec == Init /\ [][Next]_vars

\* ------------------------------------------- the handlers, thread by thread
\* The calls the threads make: load_video of a failing decode, of two 32x1
\* frames and of one 31x1 frame; write_frame of a 32x1 picture to frames 0, 1
\* and 2 from either buffer and from an address that does not resolve;
\* get_frame of frame 0; assemble_video.  The file names resolve, and every
\* String and Vec has the capacity of its length.
ConcLoadArgs ==
    [filename_ptr |-> 0, filename_len |-> 2, filename_capacity |-> 2,
     width_ptr |-> WidthSlot, height_ptr |-> HeightSlot]
ConcFileArgs == [filename_ptr |-> 0, filename_len |-> 2, filename_capacity |-> 2]
ConcDecodes == {DecodeError, DecodedVideo(1, 2), DecodedVideo(2, 1)}
ConcCalls ==
    {[IdleCall EXCEPT !.op = "load_video", !.dec = d] : d \in ConcDecodes}
    \cup {[IdleCall EXCEPT !.op = "write_frame", !.idx = a[1], !.ptr = a[2],
                            !.len = BufLen, !.overflow_checks = a[3]] :
             a \in {<<0, 0, TRUE>>, <<0, BufB, FALSE>>, <<1, BufB, TRUE>>, <<2, 0, FALSE>>,
                    <<2, MemSize, TRUE>>}}
    \cup {[IdleCall EXCEPT !.op = "get_frame", !.ptr = p, !.len = BufLen] :
             p \in {0, MemSize}}
    \cup {[IdleCall EXCEPT !.op = "assemble_video"]}

\* The call run whole on store-and-memory st, as one step of Spec runs it.
Whole(call, st) ==
    CASE call.op = "load_video" ->
             load_video_to_host_memory(st.frames, st.video_info, st.memory,
                                       ConcLoadArgs, call.dec)
      [] call.op = "get_frame" ->
             get_frame(st.frames, st.video_info, st.memory,
                       [idx |-> call.idx, ptr |-> call.ptr, len |-> call.len,
                        capacity |-> call.len])
      [] call.op = "write_frame" ->
             write_frame(st.frames, st.video_info, st.memory,
                         [idx |-> call.idx, ptr |-> call.ptr, len |-> call.len,
                          overflow_checks |-> call.overflow_checks])
      [] call.op = "assemble_video" ->
             assemble_output_frames_to_video(st.frames, st.video_info, st.memory,
                                             ConcFileArgs, TRUE, TRUE)

\* The first place of each handler after data.lock().
FirstPc(op) ==
    CASE op = "load_video" -> "load_decode"
      [] op = "get_frame" -> "get_copy"
      [] op = "write_frame" -> "write_info"
      [] op = "assemble_video" -> "asm_info"

\* LockFree with the bug of a lock that never blocks.
LockFree_Always(l) == TRUE

\* Mutex::lock returns the guard only while no other guard exists.
LockFree(l) == l = 0

\* Thread t moves to thread record rec.
Goto(t, rec) == threads' = [threads EXCEPT ![t] = rec]

\* Thread t is about to return ret.
Returns(t, ret) == Goto(t, [threads[t] EXCEPT !.pc = "unlock", !.ret = ret])

OkRet(v) == [NoRet EXCEPT !.outcome = "ok", !.value = v]
ErrRet(v) == [NoRet EXCEPT !.outcome = "err", !.value = v]

\* A guest calls a host function on thread t.
Invoke(t) ==
    /\ threads[t].pc = "idle"
    /\ host = "running"
    /\ \E c \in ConcCalls : Goto(t, [IdleThread EXCEPT !.pc = "lock", !.call = c])
    /\ UNCHANGED <<frames, video_info, memory, host, last, written, scenario, lock, serial>>

\* data.lock() returns the guard (lines 115, 189, 232, 302).  This is where
\* the call takes its place in the serial order.
Acquire(t) ==
    /\ threads[t].pc = "lock"
    /\ host = "running"
    /\ LockFree(lock)
    /\ lock' = t
    /\ LET r == Whole(threads[t].call, serial)
       IN  /\ serial' = [frames |-> r.frames, video_info |-> r.video_info, memory |-> r.memory]
           /\ Goto(t, [threads[t] EXCEPT !.pc = FirstPc(threads[t].call.op),
                                         !.want = Ret(r.last)])
    /\ UNCHANGED <<frames, video_info, memory, host, last, written, scenario>>

\* data.lock() returns Err(PoisonError) and expect()/unwrap() panics.
LockPoisoned(t) ==
    /\ threads[t].pc = "lock"
    /\ host = "poisoned"
    /\ LockFree(lock)
    /\ LET ret == [NoRet EXCEPT !.outcome = "panic", !.at = "lock"]
       IN  Goto(t, [threads[t] EXCEPT !.pc = "panicked", !.ret = ret, !.want = ret])
    /\ UNCHANGED <<frames, video_info, memory, host, last, written, scenario, lock, serial>>

\* A panic inside a handler: unwinding drops the guard, which poisons the
\* mutex, or the process aborts at the extern "C" boundary.
Panics(t, where) ==
    /\ host' \in {"poisoned", "aborted"}
    /\ lock' = 0
    /\ Goto(t, [threads[t] EXCEPT !.pc = "panicked",
                                  !.ret = [NoRet EXCEPT !.outcome = "panic", !.at = where]])
    /\ UNCHANGED <<frames, video_info, memory, last, written, scenario, serial>>

\* Undefined behaviour inside a handler takes the process down: no thread
\* takes another step.
Aborts(t) ==
    /\ host' = "aborted"
    /\ UNCHANGED <<frames, video_info, memory, last, written, scenario, lock, threads, serial>>

\* load_video_to_host_memory, lines 119-161 and 170-174: the addresses
\* resolve, the file is decoded, and the width and height are stored.
LoadDecode(t) ==
    LET dec == threads[t].call.dec
    IN  /\ threads[t].pc = "load_decode"
        /\ host # "aborted"
        /\ IF dec.ok
           THEN /\ memory' = IF Len(dec.frames) > 0
                             THEN WriteU32(WriteU32(memory, ConcLoadArgs.width_ptr,
                                                    dec.frames[1].input_frame.width),
                                           ConcLoadArgs.height_ptr,
                                           dec.frames[1].input_frame.height)
                             ELSE memory
                /\ Goto(t, [threads[t] EXCEPT !.pc = "load_info"])
           ELSE /\ memory' = memory
                /\ Returns(t, ErrRet(1))
        /\ UNCHANGED <<frames, video_info, host, last, written, scenario, lock, serial>>

\* Line 165: vid_gaurd.video_info = Some(video_info).
LoadInfo(t) ==
    /\ threads[t].pc = "load_info"
    /\ host # "aborted"
    /\ video_info' = ReplaceAll(frames, video_info, threads[t].call.dec).video_info
    /\ Goto(t, [threads[t] EXCEPT !.pc = "load_frames"])
    /\ UNCHANGED <<frames, memory, host, last, written, scenario, lock, serial>>

\* Lines 166-168: vid_gaurd.frames = frames, and the count is the result.
LoadFrames(t) ==
    /\ threads[t].pc = "load_frames"
    /\ host # "aborted"
    /\ frames' = ReplaceAll(frames, video_info, threads[t].call.dec).frames
    /\ Returns(t, OkRet(Len(frames')))
    /\ UNCHANGED <<video_info, memory, host, last, written, scenario, lock, serial>>

\* get_frame, lines 193-221.
GetCopy(t) ==
    LET c     == threads[t].call
        frame == FrameAt(frames, ToUnsigned(c.idx))
    IN  /\ threads[t].pc = "get_copy"
        /\ host # "aborted"
        /\ IF ~InBounds(ToUnsigned(c.ptr), ToUnsigned(c.len))
           THEN Panics(t, "image_buf")
           ELSE IF IsSome(frame) /\ Len(Unwrap(frame).input_frame.data) # ToUnsigned(c.len)
           THEN Panics(t, "copy_from_slice")
           ELSE /\ memory' = IF IsSome(frame)
                             THEN CopyToGuest(memory, ToUnsigned(c.ptr),
                                              Unwrap(frame).input_frame.data)
                             ELSE memory
                /\ Returns(t, OkRet(1))
                /\ UNCHANGED <<frames, video_info, host, last, written, scenario, lock, serial>>

\* write_frame, lines 240-243: the reference to the stored video_info.
WriteInfo(t) ==
    /\ threads[t].pc = "write_info"
    /\ host # "aborted"
    /\ IF IsSome(video_info)
       THEN /\ Goto(t, [threads[t] EXCEPT !.pc = "write_copy", !.info = video_info])
            /\ UNCHANGED <<frames, video_info, memory, host, last, written, scenario,
                           lock, serial>>
       ELSE Panics(t, "video_info")

\* write_frame, lines 245-276: the buffer resolves and fills a new picture.
\* The Vec's capacity is width * height * 3, which is below its length when
\* the picture's lines are padded.
WriteCopy(t) ==
    LET c == threads[t].call
        w == Unwrap(threads[t].info).width
        h == Unwrap(threads[t].info).height
    IN  /\ threads[t].pc = "write_copy"
        /\ host # "aborted"
        /\ IF ~InBounds(ToUnsigned(c.ptr), ToUnsigned(c.len))
           THEN Panics(t, "image_buf")
           ELSE IF BufferSizeOverflows(w, h) /\ c.overflow_checks
           THEN Panics(t, "buffer_size")
           ELSE IF BufferSizeOverflows(w, h) \/ ToUnsigned(c.len) # PlaneLen(w, h)
           THEN Panics(t, "copy_from_slice")
           ELSE \/ /\ WrappedBufferSize(w, h) < ToUnsigned(c.len)
                   /\ Aborts(t)
                \/ /\ Goto(t, [threads[t] EXCEPT
                                   !.pc = "write_install",
                                   !.pic = Some(VideoFrame(w, h, Slice(memory, ToUnsigned(c.ptr),
                                                                       ToUnsigned(c.len))))])
                   /\ UNCHANGED <<frames, video_info, memory, host, last, written, scenario,
                                  lock, serial>>

\* write_frame, lines 284-292: the picture becomes the frame's output.
WriteInstall(t) ==
    LET i         == ToUnsigned(threads[t].call.idx)
        frame_map == FrameAt(frames, i)
    IN  /\ threads[t].pc = "write_install"
        /\ host # "aborted"
        /\ IF IsSome(frame_map)
           THEN /\ frames' = [frames EXCEPT ![i + 1] =
                                 InstallOutput(Unwrap(frame_map), Unwrap(threads[t].pic))]
                /\ Returns(t, OkRet(0))
           ELSE /\ frames' = frames
                /\ Returns(t, OkRet(1))
        /\ UNCHANGED <<video_info, memory, host, last, written, scenario, lock, serial>>

\* assemble_output_frames_to_video, lines 303-324: the file name resolves and
\* the video_info is cloned.
AsmInfo(t) ==
    /\ threads[t].pc = "asm_info"
    /\ host # "aborted"
    /\ IF IsSome(video_info)
       THEN /\ Goto(t, [threads[t] EXCEPT !.pc = "asm_scan", !.info = video_info])
            /\ UNCHANGED <<frames, video_info, memory, host, last, written, scenario,
                           lock, serial>>
       ELSE Panics(t, "video_info")

\* assemble_output_frames_to_video, lines 328-357: the fold over the frames,
\* the completeness check and the encoder.  The early return on missing
\* frames drops output_file, which deallocates the guest's bytes.
AsmScan(t) ==
    LET scan == ScanFrames(frames, 1, [frames |-> <<>>, missing |-> <<>>])
    IN  /\ threads[t].pc = "asm_scan"
        /\ host # "aborted"
        /\ \/ /\ FramesMissing(scan.missing)
              /\ ConcFileArgs.filename_capacity # 0
              /\ Aborts(t)
           \/ /\ frames' = FramesAfterScan(frames)
              /\ IF FramesMissing(scan.missing)
                 THEN Returns(t, [ErrRet(1) EXCEPT !.missing = scan.missing])
                 ELSE Returns(t, [OkRet(1) EXCEPT !.enc_info = threads[t].info,
                                                  !.enc_frames = Some(scan.frames)])
              /\ UNCHANGED <<video_info, memory, host, last, written, scenario, lock, serial>>

\* The handler returns and the MutexGuard is dropped.
Release(t) ==
    /\ threads[t].pc = "unlock"
    /\ host # "aborted"
    /\ lock' = 0
    /\ Goto(t, IdleThread)
    /\ UNCHANGED <<frames, video_info, memory, host, last, written, scenario, serial>>

\* A step of thread t that needs no other thread: inside its handler, or
\* failing at a poisoned mutex.  (Once the process has aborted no thread
\* takes a step.)
ThreadStep(t) ==
    \/ LoadDecode(t) \/ LoadInfo(t) \/ LoadFrames(t)
    \/ GetCopy(t)
    \/ WriteInfo(t) \/ WriteCopy(t) \/ WriteInstall(t)
    \/ AsmInfo(t) \/ AsmScan(t)
    \/ Release(t)
    \/ LockPoisoned(t)

\* The two guest buffers hold different bytes.
ConcMemory == [a \in Addrs |-> IF a = BufB THEN 1 ELSE 0]

ConcInit ==
    /\ frames = <<>>
    /\ video_info = None
    /\ memory = ConcMemory
    /\ host = "running"
    /\ last = NoCall
    /\ written = {}
    /\ scenario = 0
    /\ lock = 0
    /\ threads = [t \in Threads |-> IdleThread]
    /\ serial = [frames |-> <<>>, video_info |-> None, memory |-> ConcMemory]

ConcNext == \E t \in Threads : Invoke(t) \/ Acquire(t) \/ ThreadStep(t)

\* The scheduler lets every thread that can take a step take one, and a
\* thread blocked in lock() gets the mutex if it is free again and again.
ConcSpec ==
    /\ ConcInit
    /\ [][ConcNext]_vars
    /\ \A t \in Threads : WF_vars(ThreadStep(t)) /\ SF_vars(Acquire(t))

\* ------------------------------------------------------------ vocabulary
HostCalls == {"load_video", "get_frame", "write_frame", "assemble_video"}

\* The call returned a value or an error to the guest.
Returned == last.outcome \in {"ok", "err"}

\* The recorded index as the usize the handler looks up, and whether it is
\* a valid position of the current frame sequence.
LastIdx == ToUnsigned(last.idx)
InRange == LastIdx < Len(frames)

\* The recorded buffer resolves in guest memory.
BufferResolves == InBounds(ToUnsigned(last.ptr), ToUnsigned(last.len))

HasOutput(k) == IsSome(frames[k].output_frame)
AllWritten == \A k \in 1 .. Len(frames) : HasOutput(k)
UnsetIndexes == {k - 1 : k \in {j \in 1 .. Len(frames) : ~HasOutput(j)}}

Ascending(seq) == \A j \in 1 .. Len(seq) : \A k \in 1 .. Len(seq) : j < k => seq[j] < seq[k]
Range(seq) == {seq[k] : k \in 1 .. Len(seq)}

\* ------------------------------------------------------------------ claims

\* C1. Completeness gate: whenever assemble_video is called on a store in
\* which at least one frame has no output picture, the call does not succeed,
\* the Encode Collaborator is neither constructed nor written to, the store is
\* left as it was, and the indexes it reports missing are exactly the indexes
\* whose output is unset, in ascending order.  (The call can stop before the
\* scan only where the mutex is poisoned or the file name does not resolve.)
C1_CompletenessGate ==
    (last.op = "assemble_video" /\ UnsetIndexes # {}) =>
        /\ last.outcome # "ok"
        /\ last.enc_info = None
        /\ last.enc_frames = None
        /\ ~last.enc_error
        /\ ~last.store_changed
        /\ (last.outcome = "panic" => last.at \in {"lock", "filename_ptr"})
        /\ (last.outcome = "err" =>
                /\ last.value = 1
                /\ Range(last.missing) = UnsetIndexes
                /\ Ascending(last.missing))

\* C1 witness: three frames, the middle one written, and assemble_video has
\* just failed reporting frames 0 and 2.
C1_Witness ==
    /\ last.op = "assemble_video"
    /\ last.outcome = "err"
    /\ Len(frames) = 3
    /\ last.missing = <<0, 2>>
    /\ HasOutput(2)

\* The triples assemble_video owes the encoder for the current store: one per
\* frame, in index order, each with the frame's current output picture, its
\* frame type and its timestamp.
ExpectedTriples ==
    [k \in 1 .. Len(frames) |->
        <<Unwrap(frames[k].output_frame), frames[k].frame_type, frames[k].timestamp>>]

\* C2. When every frame has an output picture and assemble_video returns, the
\* Encode Collaborator was constructed with the stored metadata, and, unless
\* its construction failed, it was given exactly N triples in ascending index
\* order, triple i carrying frame i's current output picture, frame type and
\* timestamp.  At the end of the scenario (load of 3 frames, write_frame(0),
\* write_frame(1), a failed assemble_video, write_frame(2), assemble_video) the
\* encoder, once constructed, has received exactly 3 triples in index order
\* and the call has succeeded.
C2_EncoderInput ==
    /\ (last.op = "assemble_video" /\ Returned /\ AllWritten) =>
            /\ IsSome(video_info)
            /\ last.enc_info = video_info
            /\ last.missing = <<>>
            /\ (last.outcome = "ok" => last.enc_frames = Some(ExpectedTriples))
            /\ (last.outcome = "err" => last.enc_error /\ last.enc_frames = None)
    /\ scenario = 6 =>
            /\ last.op = "assemble_video"
            /\ Len(frames) = 3
            /\ AllWritten
            /\ (~last.enc_error => last.outcome = "ok")
            /\ (last.outcome = "ok" =>
                    /\ Len(Unwrap(last.enc_frames)) = 3
                    /\ \A k \in 1 .. 3 :
                         Unwrap(last.enc_frames)[k][1] = Unwrap(frames[k].output_frame))

\* C2 witness: the scenario has run to its end and the last assemble_video
\* succeeded.
C2_Witness ==
    /\ scenario = 6
    /\ last.outcome = "ok"
    /\ ~last.enc_error
    /\ Len(Unwrap(last.enc_frames)) = 3

\* C3. Last write wins: a write_frame on an in-range index that was already
\* written since the load, given a resolvable buffer of the picture's size,
\* returns 0 and leaves that frame's output equal to the bytes of the buffer
\* it was just given; and a successful assemble_video passes, for every
\* index, the output picture the frame holds now.
C3_LastWriteWins ==
    /\ (/\ last.op = "write_frame"
        /\ last.at # "lock"
        /\ last.outcome # "abort"
        /\ last.idx \in written
        /\ InRange
        /\ IsSome(video_info)
        /\ BufferResolves
        /\ last.len = PlaneLen(Unwrap(video_info).width, Unwrap(video_info).height)) =>
            /\ last.outcome = "ok"
            /\ last.value = 0
            /\ ~last.mem_changed
            /\ frames[LastIdx + 1].output_frame =
                   Some(VideoFrame(Unwrap(video_info).width, Unwrap(video_info).height,
                                   Slice(memory, last.ptr, last.len)))
    /\ (last.op = "assemble_video" /\ last.outcome = "ok") =>
            /\ Len(Unwrap(last.enc_frames)) = Len(frames)
            /\ \A k \in 1 .. Len(frames) :
                 Unwrap(last.enc_frames)[k][1] = Unwrap(frames[k].output_frame)

\* C3 witness: a write_frame has just replaced an output picture by one with
\* other bytes.
C3_Witness ==
    /\ last.op = "write_frame"
    /\ last.outcome = "ok"
    /\ last.value = 0
    /\ last.overwrote

\* C4. Replace-all: right after a successful load_video the store holds
\* exactly one decoded video, its frames and its metadata, the returned value
\* is its frame count and every output is unset; and an assemble_video called
\* with no write_frame answered 0 since the load, on a store of at least one
\* frame, does not succeed and leaves the encoder alone.
C4_ReplaceAll ==
    /\ (last.op = "load_video" /\ last.outcome = "ok") =>
            /\ \E dec \in DecodeOutcomes :
                 /\ dec.ok
                 /\ frames = dec.frames
                 /\ video_info = Some(dec.video_info)
            /\ last.value = Len(frames)
            /\ UnsetIndexes = {k - 1 : k \in 1 .. Len(frames)}
            /\ written = {}
    /\ (last.op = "assemble_video" /\ written = {} /\ Len(frames) >= 1) =>
            /\ last.outcome # "ok"
            /\ last.enc_info = None
            /\ last.enc_frames = None

\* C4 witness: a load_video has just replaced a store that held output
\* pictures by a video of at least one frame.
C4_Witness ==
    /\ last.op = "load_video"
    /\ last.outcome = "ok"
    /\ last.had_outputs
    /\ Len(frames) >= 1

\* C5. When the Decode Collaborator fails, load_video returns Err(User(1)) and
\* neither the store (frames, outputs, metadata) nor the guest memory (the
\* width and height slots) has changed.
C5_DecodeFailureKeepsStore ==
    (last.op = "load_video" /\ last.dec_error) =>
        /\ last.outcome = "err"
        /\ last.value = 1
        /\ ~last.store_changed
        /\ ~last.mem_changed

\* C5 witness: a decode has just failed on a store that holds written frames.
C5_Witness ==
    /\ last.op = "load_video"
    /\ last.dec_error
    /\ last.outcome = "err"
    /\ last.had_outputs
    /\ IsSome(video_info)

\* C6. write_frame with an index that is not below the frame count, after a
\* successful load and with a buffer that resolves, returns the "not written"
\* status 1 and leaves the store unchanged, whatever length the guest declares.
\* (Violated: copy_from_slice runs before the index is looked up and panics
\* when the declared length is not the length of plane 0 of the new picture.)
C6_OutOfRangeWriteReturnsOne ==
    (/\ last.op = "write_frame"
     /\ last.at \notin {"lock", "image_buf"}
     /\ last.outcome # "abort"
     /\ IsSome(video_info)
     /\ ~InRange) =>
        /\ last.outcome = "ok"
        /\ last.value = 1
        /\ ~last.store_changed

\* C7. get_frame with an index that is not below the frame count (a negative
\* guest index, or any index on a store with no frames, included), given a
\* buffer that resolves, writes no byte of guest memory, does not panic and
\* returns Ok(1), leaving the store as it was.
C7_OutOfRangeGetTouchesNothing ==
    (/\ last.op = "get_frame"
     /\ last.at \notin {"lock", "image_buf"}
     /\ last.outcome # "abort"
     /\ ~InRange) =>
        /\ last.outcome = "ok"
        /\ last.value = 1
        /\ last.nbytes = 0
        /\ ~last.mem_changed
        /\ ~last.store_changed

\* C7 witness: get_frame(-1) has just returned on a store of three frames,
\* with a buffer of the frames' own length.
C7_Witness ==
    /\ last.op = "get_frame"
    /\ last.idx = -1
    /\ last.outcome = "ok"
    /\ Len(frames) = 3
    /\ last.len = Len(frames[1].input_frame.data)

\* C8. write_frame, once the metadata exists and the buffer resolves, reads
\* exactly width * height * 3 bytes and does not fail, whatever length the
\* guest declares.  (Violated: the slice copied has the declared length, and
\* copy_from_slice panics when that is not the length of plane 0 of the new
\* picture.)
C8_DeclaredLengthIgnored ==
    (/\ last.op = "write_frame"
     /\ last.at \notin {"lock", "image_buf"}
     /\ last.outcome # "abort"
     /\ IsSome(video_info)) =>
        /\ last.outcome = "ok"
        /\ last.nbytes = Unwrap(video_info).width * Unwrap(video_info).height * 3

\* C9. When the Encode Collaborator fails, in its construction or when the
\* frames are written to it, assemble_video returns an error and never a
\* success status.  (Violated: a failure of
\* receive_and_process_decoded_frames is logged and Ok(1) returned.)
C9_EncodeFailureReported ==
    (last.op = "assemble_video" /\ last.enc_error) => last.outcome = "err"

\* C10. Every call of a host function ends by returning a value or an error
\* to the guest, never by panicking.  (Violated: every address resolution,
\* the lookup of the metadata and both copy_from_slice calls panic.)
C10_NoPanic ==
    last.op \in HostCalls => Returned

\* The places where a guest address is resolved (data_pointer_mut(..).expect).
ResolutionSites == {"width_ptr", "height_ptr", "filename_ptr", "image_buf"}

\* C11. A call that fails in address resolution, or because the Decode or
\* Encode Collaborator fails, leaves the store as it was and the mutex usable:
\* the next call can take the lock.  (Violated: a failed address resolution is
\* an expect() that panics while the MutexGuard is held, so the mutex is
\* poisoned and every later call panics at data.lock().)
C11_FailureIsLocal ==
    (/\ last.op \in HostCalls
     /\ \/ last.at \in ResolutionSites
        \/ last.dec_error
        \/ (last.enc_error /\ last.outcome = "err")) =>
        /\ ~last.store_changed
        /\ host = "running"

\* C12. No call of a host function that returns to the guest, with a value or
\* with an error, has deallocated the guest memory behind the String or Vec it
\* built with from_raw_parts.  (Violated: assemble_output_frames_to_video
\* returns early, on missing frames and on a failed VideoEncoder::new, without
\* forgetting output_file, whose drop deallocates the guest's bytes.)
C12_NeverFreed ==
    (last.op \in HostCalls /\ Returned) => ~last.freed

\* C13. Whenever a host function stores bytes into guest memory, it stores no
\* more bytes at a range than the length it had data_pointer_mut verify for
\* that range, and nothing beyond the memory instance.  (Violated: load_video
\* verifies one byte at width_ptr and at height_ptr and stores a u32 at each.)
C13_NoOverrun ==
    last.op \in HostCalls => (last.stored <= last.checked /\ ~last.overrun)

\* C15. In every reachable state frame i has an output picture exactly when a
\* write_frame on index i has returned 0 since the most recent successful
\* load_video; every frame has its input picture, of the size its width and
\* height give; and a call other than write_frame that changes the store (a
\* successful load_video) leaves no frame with an output.
C15_OutputIffWritten ==
    /\ \A k \in 1 .. Len(frames) : HasOutput(k) <=> (k - 1) \in written
    /\ written \subseteq {k - 1 : k \in 1 .. Len(frames)}
    /\ \A k \in 1 .. Len(frames) :
         Len(frames[k].input_frame.data) =
             PlaneLen(frames[k].input_frame.width, frames[k].input_frame.height)
    /\ (last.op \in HostCalls \ {"write_frame"} /\ last.store_changed) =>
            \A k \in 1 .. Len(frames) : ~HasOutput(k)

\* C15 witness: of three frames the first and the last have been written, the
\* middle one has not, and a get_frame has just run.
C15_Witness ==
    /\ Len(frames) = 3
    /\ written = {0, 2}
    /\ HasOutput(1) /\ ~HasOutput(2) /\ HasOutput(3)
    /\ last.op = "get_frame"
    /\ last.outcome = "ok"

\* The u32 held little-endian in the four bytes at guest address ptr.
ReadU32(mem, ptr) ==
    mem[ptr] + 256 * mem[ptr + 1] + 65536 * mem[ptr + 2] + 16777216 * mem[ptr + 3]

\* C16. A successful load_video returns the number of frames the store holds
\* after the call, so that a guest index finds a frame exactly when it is at
\* least 0 and below the returned value; with at least one frame the width
\* and height slots (four bytes each, inside the guest memory) hold the first
\* frame's width and height; with no frame the guest memory is untouched.
C16_LoadReturnsCount ==
    (last.op = "load_video" /\ last.outcome = "ok") =>
        /\ last.value = Len(frames)
        /\ \A i \in IdxArgs :
             IsSome(FrameAt(frames, ToUnsigned(i))) <=> (0 <= i /\ i < last.value)
        /\ (/\ last.value >= 1
            /\ InBounds(ToUnsigned(last.width_ptr), 4)
            /\ InBounds(ToUnsigned(last.height_ptr), 4)) =>
                /\ ReadU32(memory, last.width_ptr) = frames[1].input_frame.width
                /\ ReadU32(memory, last.height_ptr) = frames[1].input_frame.height
        /\ last.value = 0 => (~last.mem_changed /\ last.stored = 0)

\* C16 witness: a load of the 31x1 video has just written width 31 and height
\* 1 over the other video's values.
C16_Witness ==
    /\ last.op = "load_video"
    /\ last.outcome = "ok"
    /\ last.value = 1
    /\ last.mem_changed
    /\ last.height_ptr = HeightSlot
    /\ frames[1].input_frame.width = VideoWidth(2)
    /\ ReadU32(memory, WidthSlot) = VideoWidth(2)

\* C17. get_frame with an index below the frame count and a resolvable buffer
\* whose declared length is the length of plane 0 of that frame's input
\* picture returns Ok(1) and leaves the buffer equal, byte for byte, to the
\* input bytes of the frame at that index of the current store; the store is
\* unchanged.
C17_GetFrameCopiesInput ==
    (/\ last.op = "get_frame"
     /\ last.at # "lock"
     /\ last.outcome # "abort"
     /\ InRange
     /\ BufferResolves
     /\ last.len = Len(frames[LastIdx + 1].input_frame.data)) =>
        /\ last.outcome = "ok"
        /\ last.value = 1
        /\ last.nbytes = last.len
        /\ Slice(memory, last.ptr, last.len) = frames[LastIdx + 1].input_frame.data
        /\ ~last.store_changed

\* C17 witness: get_frame has just changed the guest buffer into the input
\* bytes of a frame whose output picture holds other bytes.
C17_Witness ==
    /\ last.op = "get_frame"
    /\ last.outcome = "ok"
    /\ last.nbytes > 0
    /\ last.mem_changed
    /\ InRange
    /\ HasOutput(LastIdx + 1)
    /\ Unwrap(frames[LastIdx + 1].output_frame).data # frames[LastIdx + 1].input_frame.data

\* C19. A write_frame step on an index below the frame count, with a
\* resolvable buffer of width * height * 3 bytes, returns 0 and changes only
\* that frame's output picture, which becomes the buffer's bytes: the frame's
\* input picture, frame type and timestamp, every other frame, the frame
\* count, the metadata and the guest memory are what they were.  (Violated:
\* plane 0 of the new picture has LineSize(width) * height bytes, so for a
\* width that is no multiple of LineAlign copy_from_slice panics on a buffer
\* of width * height * 3 bytes.)
C19_WriteChangesOnlyOutput ==
    [][(/\ last'.op = "write_frame"
        /\ host = "running"
        /\ IsSome(video_info)
        /\ ToUnsigned(last'.idx) < Len(frames)
        /\ InBounds(ToUnsigned(last'.ptr), ToUnsigned(last'.len))
        /\ last'.len = Unwrap(video_info).width * Unwrap(video_info).height * 3) =>
            /\ last'.outcome = "ok"
            /\ last'.value = 0
            /\ host' = "running"
            /\ video_info' = video_info
            /\ memory' = memory
            /\ Len(frames') = Len(frames)
            /\ \A k \in 1 .. Len(frames) :
                 frames'[k] =
                     IF k = last'.idx + 1
                     THEN [frames[k] EXCEPT !.output_frame =
                              Some(VideoFrame(Unwrap(video_info).width, Unwrap(video_info).height,
                                              Slice(memory, last'.ptr, last'.len)))]
                     ELSE frames[k]]_vars

\* C20. get_frame and assemble_video steps leave the frames, their outputs and
\* the metadata as they were, whether they succeed, fail or panic.  So an
\* assemble_video that succeeds right after a successful one hands the encoder
\* the same metadata and triples, and a write_frame that returns 0 right after
\* an assemble_video that reported missing indexes leaves unset exactly the
\* reported indexes other than the one written.
C20_ReadOnly ==
    [][/\ (last'.op \in {"get_frame", "assemble_video"}) =>
              (frames' = frames /\ video_info' = video_info)
       /\ (/\ last.op = "assemble_video" /\ last.outcome = "ok"
           /\ last'.op = "assemble_video" /\ last'.outcome = "ok") =>
              /\ last'.enc_info = last.enc_info
              /\ last'.enc_frames = last.enc_frames
              /\ last'.value = last.value
       /\ (/\ last.op = "assemble_video" /\ last.outcome = "err" /\ last.missing # <<>>
           /\ last'.op = "write_frame" /\ last'.outcome = "ok" /\ last'.value = 0) =>
              UnsetIndexes' = Range(last.missing) \ {last'.idx}]_vars

\* C20 witness: assemble_video has just succeeded on a complete store of two
\* frames.
C20_Witness ==
    /\ last.op = "assemble_video"
    /\ last.outcome = "ok"
    /\ Len(frames) = 2
    /\ AllWritten
    /\ last.had_outputs

\* Thread t is between its first and its last access to the FramesMap.
InHandler(t) == threads[t].pc \notin {"idle", "lock", "panicked"}

\* The store and the guest memory are what the calls, run whole and one at a
\* time in the order they took the lock, have made of them.
AsSerial ==
    /\ frames = serial.frames
    /\ video_info = serial.video_info
    /\ memory = serial.memory

\* The metadata and the frames come from the same load, and every output
\* picture has the metadata's size.
Coherent ==
    IF IsSome(video_info)
    THEN \A k \in 1 .. Len(frames) :
            /\ frames[k].input_frame.width = Unwrap(video_info).width
            /\ frames[k].input_frame.height = Unwrap(video_info).height
            /\ HasOutput(k) =>
                   /\ Unwrap(frames[k].output_frame).width = Unwrap(video_info).width
                   /\ Unwrap(frames[k].output_frame).height = Unwrap(video_info).height
    ELSE frames = <<>>

\* C14. With several threads calling the host functions, at most one thread
\* is inside a handler, and it holds the mutex; the metadata a handler has
\* read is still the store's; whenever the mutex is free the store holds the
\* metadata and frames of one load, no load or write partly applied; and
\* every call returns, and leaves the store and the guest memory, exactly as
\* the same calls do when run whole, one after the other, in the order in
\* which they took the lock.
C14_SerialOrder ==
    /\ \A t \in Threads : \A u \in Threads : (InHandler(t) /\ InHandler(u)) => t = u
    /\ \A t \in Threads :
         /\ InHandler(t) => lock = t
         /\ (InHandler(t) /\ IsSome(threads[t].info)) => threads[t].info = video_info
         /\ threads[t].pc \in {"unlock", "panicked"} => threads[t].ret = threads[t].want
         /\ threads[t].pc = "unlock" => AsSerial
    /\ lock = 0 => (AsSerial /\ Coherent)

\* C14 witness: one thread is halfway through a load (the metadata is the new
\* video's, the frames still the old one's) while another waits in lock().
C14_Witness ==
    \E t \in Threads : \E u \in Threads :
        /\ threads[t].pc = "load_frames"
        /\ threads[u].pc = "lock"
        /\ threads[u].call.op = "assemble_video"
        /\ Len(frames) = 2
        /\ HasOutput(1)
        /\ frames[1].input_frame.width # Unwrap(video_info).width

\* C18. Under fair scheduling every thread waiting in lock() gets the mutex,
\* and every call that was made returns to its caller.  (Violated: a handler
\* that panics never returns, and the mutex it poisons makes every waiting
\* lock() fail instead of returning the guard.)
C18_EveryCallReturns ==
    \A t \in Threads :
        /\ (threads[t].pc = "lock") ~> (lock = t)
        /\ (threads[t].pc # "idle") ~> (threads[t].pc = "idle")

====
